---- MODULE Spec2Model ----
(***************************************************************************)
(* A model of the guts-python SDK: the error taxonomy and its dispatch     *)
(* (guts/exceptions.py), the transport GutsClient with its request cycle   *)
(* and scoped release, and the resource facades built on it                *)
(* (guts/client.py), with the record construction of guts/models.py.       *)
(*                                                                         *)
(* A facade call blocks on one HTTP round trip.  The model splits it at    *)
(* the blocking point: the facade's action builds the request and hands it *)
(* to the underlying HTTP client (pc = "sent"); Receive is the rest of the *)
(* handler, from the response (or the network failure) to the value        *)
(* returned or the error raised (pc = "done"); Resume is the caller taking *)
(* that outcome and going on.                                              *)
(***************************************************************************)
EXTENDS Integers, Sequences, FiniteSets, TLC

VARIABLES
    pc,          \* "idle": no call running; "sent": blocked on the round trip; "done": call ended
    call,        \* the facade (or dispatch) call being made: its name and arguments
    sent,        \* the HTTP requests handed to the underlying client by the current call
    resp,        \* the response the underlying client produced for the current call
    result,      \* what the call returned or raised
    conn,        \* the underlying httpx.Client: "open" or "closed"
    scope,       \* the with-block: "outside", "inside", "leaving", "exited"
    block_exc,   \* the error with which the with-block is being left (NoError: it ended normally)
    caller_exc,  \* the error that came out of the with statement to the caller
    issue_state  \* the server's side: per issue number "open", "closed", or "closed again"
                 \* (closed by a request that found it closed already)

vars == <<pc, call, sent, resp, result, conn, scope, block_exc, caller_exc, issue_state>>

-----------------------------------------------------------------------------
(* Bounds of the model *)

MinStatus == 100
MaxStatus == 599
MaxLen == 2
MaxNumber == 2

-----------------------------------------------------------------------------
(* Values *)

\* Python's None, JSON's null
None == "None"

RECURSIVE ToStr(_)
Digit == <<"0", "1", "2", "3", "4", "5", "6", "7", "8", "9">>
\* the decimal text an f-string puts in a path for an int
ToStr(n) == IF n < 10 THEN Digit[n + 1] ELSE ToStr(n \div 10) \o Digit[(n % 10) + 1]

\* A response body, by what response.json() makes of it:
\*   "text"   the body is not JSON (response.json() raises)
\*   "scalar" a JSON number, true, false or null
\*   "array"  a JSON array, its elements in items
\*   "object" a JSON object with the keys in keys; message, items and id are
\*            the values under the keys of those names
\*   "none"   no body at all (the value None)
Json(shape, text, keys, message, items, id) ==
    [shape |-> shape, text |-> text, keys |-> keys, message |-> message,
     items |-> items, id |-> id]

NoJson == Json("none", "", {}, "", <<>>, 0)
TextBody(text) == Json("text", text, {}, "", <<>>, 0)
ScalarBody(text) == Json("scalar", text, {}, "", <<>>, 0)
ArrayBody(items) == Json("array", "[..]", {}, "", items, 0)
ObjectBody(keys, message, items, id) == Json("object", "{..}", keys, message, items, id)

\* the array elements a server sends: two well-formed entities, and an object
\* without the required fields of any record type
Entity(id) == ObjectBody({"id"}, "", <<>>, id)
Malformed == ObjectBody({"total"}, "", <<>>, 0)
Entities == {Entity(1), Entity(2)}

RECURSIVE SeqsUpTo(_, _)
SeqsUpTo(S, n) ==
    IF n = 0 THEN {<<>>}
    ELSE LET shorter == SeqsUpTo(S, n - 1)
         IN  shorter \cup {Append(s, e) : s \in {t \in shorter : Len(t) = n - 1}, e \in S}

Arrays == SeqsUpTo(Entities, MaxLen) \cup {<<Malformed>>, <<Entity(1), Malformed>>}

Messages == {"issue not found", "rate limited"}

Bodies ==
    {TextBody(""), TextBody("oops"), ScalarBody("5")}
    \cup {ArrayBody(a) : a \in Arrays}
    \cup {ObjectBody(k, "", a, 0) : k \in {{"items"}, {"items", "total"}}, a \in Arrays}
    \cup {ObjectBody({"message"}, m, <<>>, 0) : m \in Messages}
    \cup {ObjectBody({"message", "total"}, "issue not found", <<>>, 0)}
    \cup {ObjectBody({}, "", <<>>, 0), Malformed}
    \cup {Entity(1), Entity(2), ObjectBody({"id", "total"}, "", <<>>, 1)}

\* the statuses the transport is tried with
StatusCodes == {100, 200, 201, 204, 302, 400, 401, 404, 418, 429, 503}

\* the Retry-After header of a response: absent, or a number of seconds
RetryHints == {None, "30"}

Response(status_code, retry_after, body) ==
    [kind |-> "response", status_code |-> status_code, retry_after |-> retry_after,
     body |-> body]

\* self._client.request raised instead of returning: a network failure
NetworkFailure == [kind |-> "exception", status_code |-> 0, retry_after |-> None,
                   body |-> NoJson]

NoResponse == [kind |-> "none", status_code |-> 0, retry_after |-> None, body |-> NoJson]

Responses ==
    {Response(s, None, b) : s \in StatusCodes, b \in Bodies}
    \cup {Response(s, h, b) : s \in {429, 503}, h \in RetryHints, b \in Bodies}
    \cup {NetworkFailure}

-----------------------------------------------------------------------------
(* guts/exceptions.py *)

Error(kind, message, status_code, details, retry_after) ==
    [kind |-> kind, message |-> message, status_code |-> status_code,
     details |-> details, retry_after |-> retry_after]

NoError == Error("none", "", 0, NoJson, None)

\* an error of Python or of a library, outside the taxonomy
Foreign(kind) == Error(kind, "", 0, NoJson, None)

GutsError(message, status_code, details) ==
    Error("GutsError", message, status_code, details, None)

NotFoundError(message, details) ==
    [GutsError(message, 404, details) EXCEPT !.kind = "NotFoundError"]

UnauthorizedError(message, details) ==
    [GutsError(message, 401, details) EXCEPT !.kind = "UnauthorizedError"]

ForbiddenError(message, details) ==
    [GutsError(message, 403, details) EXCEPT !.kind = "ForbiddenError"]

RateLimitError(message, retry_after, details) ==
    [GutsError(message, 429, details) EXCEPT !.kind = "RateLimitError",
                                             !.retry_after = retry_after]

ValidationError(message, details) ==
    [GutsError(message, 422, details) EXCEPT !.kind = "ValidationError"]

ServerError(message, status_code, details) ==
    [GutsError(message, status_code, details) EXCEPT !.kind = "ServerError"]

\* a variant that writes the status also when it is 0
__str___always_bracketed(self) ==
    "[" \o ToStr(self.status_code) \o "] " \o self.message

\* GutsError.__str__, inherited by every error of the taxonomy
__str__(self) ==
    IF self.status_code # 0
    THEN "[" \o ToStr(self.status_code) \o "] " \o self.message
    ELSE self.message

\* What a call comes to: a value returned, or an error raised.
NoValue == [vt |-> "None", json |-> NoJson, list |-> <<>>, type |-> "", id |-> 0,
            str |-> ""]
StrValue(str) == [NoValue EXCEPT !.vt = "str", !.str = str]
JsonValue(j) == [NoValue EXCEPT !.vt = "json", !.json = j]
ListValue(l) == [NoValue EXCEPT !.vt = "list", !.list = l]
RecordValue(type, id) == [NoValue EXCEPT !.vt = "record", !.type = type, !.id = id]

Return(v) == [tag |-> "return", val |-> v, err |-> NoError]
Raise(e) == [tag |-> "raise", val |-> NoValue, err |-> e]
NoResult == [tag |-> "none", val |-> NoValue, err |-> NoError]

\* a variant that gives every server error the default status of ServerError
raise_for_status_5xx_as_500(status_code, message, details) ==
    IF status_code = 401 THEN Raise(UnauthorizedError(message, details))
    ELSE IF status_code = 403 THEN Raise(ForbiddenError(message, details))
    ELSE IF status_code = 404 THEN Raise(NotFoundError(message, details))
    ELSE IF status_code = 422 THEN Raise(ValidationError(message, details))
    ELSE IF status_code = 429 THEN Raise(RateLimitError(message, None, details))
    ELSE IF status_code >= 500 THEN Raise(ServerError(message, 500, details))
    ELSE IF status_code >= 400 THEN Raise(GutsError(message, status_code, details))
    ELSE Return(NoValue)

raise_for_status(status_code, message, details) ==
    IF status_code = 401 THEN Raise(UnauthorizedError(message, details))
    ELSE IF status_code = 403 THEN Raise(ForbiddenError(message, details))
    ELSE IF status_code = 404 THEN Raise(NotFoundError(message, details))
    ELSE IF status_code = 422 THEN Raise(ValidationError(message, details))
    ELSE IF status_code = 429 THEN Raise(RateLimitError(message, None, details))
    ELSE IF status_code >= 500 THEN Raise(ServerError(message, status_code, details))
    ELSE IF status_code >= 400 THEN Raise(GutsError(message, status_code, details))
    ELSE Return(NoValue)

-----------------------------------------------------------------------------
(* guts/client.py: the transport *)

\* A dict handed over as params= or json=: a function from keys to values.
\* Values are written as Python writes them: a str as itself, an int by
\* ToStr, a bool by PyBool, a list by its repr, None as None.
EmptyDict == [k \in {} |-> None]
NoDict == [some |-> FALSE, d |-> EmptyDict]
Dict(d) == [some |-> TRUE, d |-> d]

PyBool(b) == IF b THEN "True" ELSE "False"

\* the keys of d whose value is not None, with their values
ExcludeNone(d) == [k \in {j \in DOMAIN d : d[j] # None} |-> d[k]]

Request(method, path, params, json) ==
    [method |-> method, path |-> path, params |-> params, json |-> json]

\* httpx.Response.is_success
is_success(response) == response.status_code >= 200 /\ response.status_code <= 299

\* lines 100-109: the message and the details taken from a failed response
failure_message(response) ==
    LET data == response.body
    IN  IF data.shape \in {"array", "object"}
        THEN IF data.shape = "object" /\ "message" \in data.keys
             THEN data.message ELSE "Request failed"
        ELSE IF data.text # "" THEN data.text ELSE "Request failed"

failure_details(response) ==
    IF response.body.shape \in {"array", "object"} THEN response.body ELSE NoJson

\* response.json()
response_json(response) ==
    IF response.body.shape = "text" THEN Raise(Foreign("JSONDecodeError"))
    ELSE Return(JsonValue(response.body))

\* lines 100-116: what _request returns or raises, given what the underlying
\* client answered
_request_outcome(response) ==
    IF response.kind = "exception" THEN Raise(Foreign("TransportError"))
    ELSE LET failed == IF ~is_success(response)
                       THEN raise_for_status(response.status_code,
                                             failure_message(response),
                                             failure_details(response))
                       ELSE Return(NoValue)
         IN  IF failed.tag = "raise" THEN failed
             ELSE IF response.status_code = 204 THEN Return(NoValue)
             ELSE response_json(response)

\* a variant that sends the request again after a 5xx or a network failure
_request_retry_on_failure(request, response) ==
    [sent |-> IF response.kind = "exception" \/ response.status_code >= 500
              THEN <<request, request>> ELSE <<request>>,
     outcome |-> _request_outcome(response)]

\* _request: the requests it hands to the underlying client (line 98, once)
\* and its outcome
_request(request, response) ==
    [sent |-> <<request>>, outcome |-> _request_outcome(response)]

\* a variant that does not forward the query parameters
_get_drops_params(path, params) == Request("GET", path, NoDict, NoDict)

_get(path, params) == Request("GET", path, params, NoDict)
_post(path, json) == Request("POST", path, NoDict, json)
_patch(path, json) == Request("PATCH", path, NoDict, json)
_delete(path) == Request("DELETE", path, NoDict, NoDict)

\* self._client.close()
close(c) == "closed"

\* a variant that leaves the connection as it is
__exit___keeps_open(c, exc) == [conn |-> c, ret |-> None]

\* __exit__(*args): closes, and returns None
__exit__(c, exc) == [conn |-> close(c), ret |-> None]

-----------------------------------------------------------------------------
(* guts/models.py and the comprehensions of the facades *)

\* T(**data): a record of type T from a decoded JSON value
Construct(T, data) ==
    IF data.shape # "object" THEN Raise(Foreign("TypeError"))
    ELSE IF "id" \notin data.keys THEN Raise(Foreign("pydantic.ValidationError"))
    ELSE Return(RecordValue(T, data.id))

RECURSIVE ConstructAll(_, _)
\* [T(**item) for item in xs], xs a list
ConstructAll(T, xs) ==
    IF xs = <<>> THEN Return(ListValue(<<>>))
    ELSE LET h == Construct(T, Head(xs))
         IN  IF h.tag = "raise" THEN h
             ELSE LET t == ConstructAll(T, Tail(xs))
                  IN  IF t.tag = "raise" THEN t
                      ELSE Return(ListValue(<<h.val>> \o t.val.list))

\* [T(**item) for item in data]: a dict iterates over its keys, which are str
Comprehension(T, data) ==
    CASE data.shape = "array" -> ConstructAll(T, data.items)
      [] data.shape = "object" ->
            IF data.keys = {} THEN Return(ListValue(<<>>))
            ELSE Raise(Foreign("TypeError"))
      [] OTHER -> Raise(Foreign("TypeError"))

\* [T(**item) for item in data.get("items", data)]
ComprehensionOfItems(T, data) ==
    IF data.shape # "object" THEN Raise(Foreign("AttributeError"))
    ELSE IF "items" \in data.keys THEN Comprehension(T, ArrayBody(data.items))
    ELSE Comprehension(T, data)

\* the value _request returned, as the facade sees it (None is NoJson)
DataOf(out) == IF out.val.vt = "json" THEN out.val.json ELSE NoJson

-----------------------------------------------------------------------------
(* guts/models.py: the request records *)

\* A request record is the dict of its fields; an unset Optional field is None.
CreateIssueRequest(title, body) ==
    [title |-> title, body |-> body, labels |-> "[]", assignees |-> "[]"]

CreatePullRequestRequest(title, body, source_branch, target_branch) ==
    [title |-> title, body |-> body, source_branch |-> source_branch,
     target_branch |-> target_branch, draft |-> PyBool(FALSE)]

CreateReviewRequest(body, state, commit_id) ==
    [body |-> body, state |-> state, commit_id |-> commit_id]

CreateReleaseRequest(tag_name, name, body, target_commitish) ==
    [tag_name |-> tag_name, name |-> name, body |-> body, draft |-> PyBool(FALSE),
     prerelease |-> PyBool(FALSE), target_commitish |-> target_commitish]

CreateWebhookRequest(url, events) ==
    [url |-> url, events |-> events, active |-> PyBool(TRUE)]

\* pydantic's BaseModel.model_dump(exclude_none=...)
model_dump(request, exclude_none) ==
    IF exclude_none THEN ExcludeNone(request) ELSE request

-----------------------------------------------------------------------------
(* guts/client.py: the facades *)

\* the arguments the callers of the model pass
Owners == {"alice"}
RepoNames == {"demo"}
Numbers == 1..MaxNumber
ReleaseIds == {"rel-1"}
LabelNames == {"bug"}
Orgs == {"acme"}
TeamSlugs == {"core"}
HookIds == {"hook-1"}

\* the **kwargs of the update methods
Kwargs == {EmptyDict, [title |-> "new title"], [description |-> None]}

NoArgs == EmptyDict
NoRequest == Request("", "", NoDict, NoDict)
NoCall == [op |-> "none", args |-> NoArgs, kw |-> {}, request |-> NoRequest]

\* a keyword argument: the value given when the caller passes it, else the
\* default of the signature
Arg(kw, name, given, default) == IF name \in kw THEN given ELSE default

\* The caller calls a facade method when no call is running, on a client
\* whose connection is open.
Callable ==
    /\ pc = "idle"
    /\ conn = "open"
    /\ scope \in {"outside", "inside"}

\* A facade method up to its round trip: the request goes to the underlying
\* client (line 98) and the caller blocks.
Invoke(op, args, kw, request) ==
    /\ call' = [op |-> op, args |-> args, kw |-> kw, request |-> request]
    /\ sent' = <<request>>
    /\ pc' = "sent"
    /\ UNCHANGED <<resp, result, conn, scope, block_exc, caller_exc, issue_state>>

\* a variant that replaces the issue with PUT instead of patching it
issues_update_request_put(owner, repo, number, kwargs) ==
    Request("PUT", "/api/repos/" \o owner \o "/" \o repo \o "/issues/" \o ToStr(number),
            NoDict, Dict(kwargs))

issues_update_request(owner, repo, number, kwargs) ==
    _patch("/api/repos/" \o owner \o "/" \o repo \o "/issues/" \o ToStr(number), Dict(kwargs))

pulls_update_request(owner, repo, number, kwargs) ==
    _patch("/api/repos/" \o owner \o "/" \o repo \o "/pulls/" \o ToStr(number), Dict(kwargs))

\* the value each facade method makes of the data _request returned
repos_list_ret(data) == ComprehensionOfItems("Repository", data)
repos_get_ret(data) == Construct("Repository", data)
repos_create_ret(data) == Construct("Repository", data)
repos_update_ret(data) == Construct("Repository", data)
repos_delete_ret(data) == Return(NoValue)
issues_list_ret(data) == ComprehensionOfItems("Issue", data)
issues_get_ret(data) == Construct("Issue", data)
issues_create_ret(data) == Construct("Issue", data)
issues_update_ret(data) == Construct("Issue", data)
issues_close_ret(data) == issues_update_ret(data)
issues_reopen_ret(data) == issues_update_ret(data)
issues_list_comments_ret(data) == Comprehension("Comment", data)
issues_create_comment_ret(data) == Construct("Comment", data)
pulls_list_ret(data) == ComprehensionOfItems("PullRequest", data)
pulls_get_ret(data) == Construct("PullRequest", data)
pulls_create_ret(data) == Construct("PullRequest", data)
pulls_update_ret(data) == Construct("PullRequest", data)
pulls_merge_ret(data) == Return(NoValue)
pulls_close_ret(data) == pulls_update_ret(data)
pulls_list_reviews_ret(data) == Comprehension("Review", data)
pulls_create_review_ret(data) == Construct("Review", data)
releases_list_ret(data) == Comprehension("Release", data)
releases_get_ret(data) == Construct("Release", data)
releases_get_latest_ret(data) == Construct("Release", data)
releases_create_ret(data) == Construct("Release", data)
releases_delete_ret(data) == Return(NoValue)
labels_list_ret(data) == Comprehension("Label", data)
labels_create_ret(data) == Construct("Label", data)
labels_delete_ret(data) == Return(NoValue)
users_me_ret(data) == Construct("User", data)
users_get_ret(data) == Construct("User", data)
orgs_list_ret(data) == Comprehension("Organization", data)
orgs_get_ret(data) == Construct("Organization", data)
orgs_list_teams_ret(data) == Comprehension("Team", data)
orgs_get_team_ret(data) == Construct("Team", data)
webhooks_list_ret(data) == Comprehension("Webhook", data)
webhooks_create_ret(data) == Construct("Webhook", data)
webhooks_delete_ret(data) == Return(NoValue)
consensus_status_ret(data) == Construct("ConsensusStatus", data)
consensus_list_blocks_ret(data) == Comprehension("Block", data)
consensus_get_block_ret(data) == Construct("Block", data)
consensus_list_validators_ret(data) == Comprehension("Validator", data)

facade_return(op, out) ==
    IF out.tag = "raise" THEN out
    ELSE LET data == DataOf(out)
         IN  CASE op = "repos.list" -> repos_list_ret(data)
               [] op = "repos.get" -> repos_get_ret(data)
               [] op = "repos.create" -> repos_create_ret(data)
               [] op = "repos.update" -> repos_update_ret(data)
               [] op = "repos.delete" -> repos_delete_ret(data)
               [] op = "issues.list" -> issues_list_ret(data)
               [] op = "issues.get" -> issues_get_ret(data)
               [] op = "issues.create" -> issues_create_ret(data)
               [] op = "issues.update" -> issues_update_ret(data)
               [] op = "issues.close" -> issues_close_ret(data)
               [] op = "issues.reopen" -> issues_reopen_ret(data)
               [] op = "issues.list_comments" -> issues_list_comments_ret(data)
               [] op = "issues.create_comment" -> issues_create_comment_ret(data)
               [] op = "pulls.list" -> pulls_list_ret(data)
               [] op = "pulls.get" -> pulls_get_ret(data)
               [] op = "pulls.create" -> pulls_create_ret(data)
               [] op = "pulls.update" -> pulls_update_ret(data)
               [] op = "pulls.merge" -> pulls_merge_ret(data)
               [] op = "pulls.close" -> pulls_close_ret(data)
               [] op = "pulls.list_reviews" -> pulls_list_reviews_ret(data)
               [] op = "pulls.create_review" -> pulls_create_review_ret(data)
               [] op = "releases.list" -> releases_list_ret(data)
               [] op = "releases.get" -> releases_get_ret(data)
               [] op = "releases.get_latest" -> releases_get_latest_ret(data)
               [] op = "releases.create" -> releases_create_ret(data)
               [] op = "releases.delete" -> releases_delete_ret(data)
               [] op = "labels.list" -> labels_list_ret(data)
               [] op = "labels.create" -> labels_create_ret(data)
               [] op = "labels.delete" -> labels_delete_ret(data)
               [] op = "users.me" -> users_me_ret(data)
               [] op = "users.get" -> users_get_ret(data)
               [] op = "orgs.list" -> orgs_list_ret(data)
               [] op = "orgs.get" -> orgs_get_ret(data)
               [] op = "orgs.list_teams" -> orgs_list_teams_ret(data)
               [] op = "orgs.get_team" -> orgs_get_team_ret(data)
               [] op = "webhooks.list" -> webhooks_list_ret(data)
               [] op = "webhooks.create" -> webhooks_create_ret(data)
               [] op = "webhooks.delete" -> webhooks_delete_ret(data)
               [] op = "consensus.status" -> consensus_status_ret(data)
               [] op = "consensus.list_blocks" -> consensus_list_blocks_ret(data)
               [] op = "consensus.get_block" -> consensus_get_block_ret(data)
               [] op = "consensus.list_validators" -> consensus_list_validators_ret(data)

repos_list ==
    /\ Callable
    /\ \E kw \in SUBSET {"page", "per_page"} :
        /\ LET page == Arg(kw, "page", 2, 1)
               per_page == Arg(kw, "per_page", 50, 30)
           IN  Invoke("repos.list", NoArgs, kw,
                     _get("/api/repos", Dict([page |-> ToStr(page), per_page |-> ToStr(per_page)])))

repos_get ==
    /\ Callable
    /\ \E owner \in Owners, repo \in RepoNames :
        /\ Invoke("repos.get", [owner |-> owner, repo |-> repo], {},
                  _get("/api/repos/" \o owner \o "/" \o repo, NoDict))

repos_create ==
    /\ Callable
    /\ \E name \in RepoNames, kw \in SUBSET {"description", "private"} :
        /\ LET description == Arg(kw, "description", "a demo", None)
               private == Arg(kw, "private", TRUE, FALSE)
           IN  Invoke("repos.create", [name |-> name], kw,
                     _post("/api/repos", Dict([name |-> name, description |-> description, private |-> PyBool(private)])))

repos_update ==
    /\ Callable
    /\ \E owner \in Owners, repo \in RepoNames, kwargs \in Kwargs :
        /\ Invoke("repos.update", [owner |-> owner, repo |-> repo], DOMAIN kwargs,
                  _patch("/api/repos/" \o owner \o "/" \o repo, Dict(kwargs)))

repos_delete ==
    /\ Callable
    /\ \E owner \in Owners, repo \in RepoNames :
        /\ Invoke("repos.delete", [owner |-> owner, repo |-> repo], {},
                  _delete("/api/repos/" \o owner \o "/" \o repo))

issues_list ==
    /\ Callable
    /\ \E owner \in Owners, repo \in RepoNames, kw \in SUBSET {"state", "page", "per_page"} :
        /\ LET state == Arg(kw, "state", "closed", "open")
               page == Arg(kw, "page", 2, 1)
               per_page == Arg(kw, "per_page", 50, 30)
           IN  Invoke("issues.list", [owner |-> owner, repo |-> repo], kw,
                     _get("/api/repos/" \o owner \o "/" \o repo \o "/issues", Dict([state |-> state, page |-> ToStr(page), per_page |-> ToStr(per_page)])))

issues_get ==
    /\ Callable
    /\ \E owner \in Owners, repo \in RepoNames, number \in Numbers :
        /\ Invoke("issues.get", [owner |-> owner, repo |-> repo, number |-> number], {},
                  _get("/api/repos/" \o owner \o "/" \o repo \o "/issues/" \o ToStr(number), NoDict))

issues_create ==
    /\ Callable
    /\ \E owner \in Owners, repo \in RepoNames, body \in {None, "text"} :
        /\ LET request == CreateIssueRequest("bug", body)
           IN  Invoke("issues.create", [owner |-> owner, repo |-> repo], {},
                     _post("/api/repos/" \o owner \o "/" \o repo \o "/issues", Dict(model_dump(request, TRUE))))

issues_update ==
    /\ Callable
    /\ \E owner \in Owners, repo \in RepoNames, number \in Numbers, kwargs \in Kwargs :
        /\ Invoke("issues.update", [owner |-> owner, repo |-> repo, number |-> number], DOMAIN kwargs,
                  issues_update_request(owner, repo, number, kwargs))

issues_close ==
    /\ Callable
    /\ \E owner \in Owners, repo \in RepoNames, number \in Numbers :
        /\ Invoke("issues.close", [owner |-> owner, repo |-> repo, number |-> number], {},
                  issues_update_request(owner, repo, number, [state |-> "closed"]))

issues_reopen ==
    /\ Callable
    /\ \E owner \in Owners, repo \in RepoNames, number \in Numbers :
        /\ Invoke("issues.reopen", [owner |-> owner, repo |-> repo, number |-> number], {},
                  issues_update_request(owner, repo, number, [state |-> "open"]))

issues_list_comments ==
    /\ Callable
    /\ \E owner \in Owners, repo \in RepoNames, number \in Numbers :
        /\ Invoke("issues.list_comments", [owner |-> owner, repo |-> repo, number |-> number], {},
                  _get("/api/repos/" \o owner \o "/" \o repo \o "/issues/" \o ToStr(number) \o "/comments", NoDict))

issues_create_comment ==
    /\ Callable
    /\ \E owner \in Owners, repo \in RepoNames, number \in Numbers :
        /\ LET body == "hello"
           IN  Invoke("issues.create_comment", [owner |-> owner, repo |-> repo, number |-> number], {},
                     _post("/api/repos/" \o owner \o "/" \o repo \o "/issues/" \o ToStr(number) \o "/comments", Dict([body |-> body])))

pulls_list ==
    /\ Callable
    /\ \E owner \in Owners, repo \in RepoNames, kw \in SUBSET {"state", "page", "per_page"} :
        /\ LET state == Arg(kw, "state", "closed", "open")
               page == Arg(kw, "page", 2, 1)
               per_page == Arg(kw, "per_page", 50, 30)
           IN  Invoke("pulls.list", [owner |-> owner, repo |-> repo], kw,
                     _get("/api/repos/" \o owner \o "/" \o repo \o "/pulls", Dict([state |-> state, page |-> ToStr(page), per_page |-> ToStr(per_page)])))

pulls_get ==
    /\ Callable
    /\ \E owner \in Owners, repo \in RepoNames, number \in Numbers :
        /\ Invoke("pulls.get", [owner |-> owner, repo |-> repo, number |-> number], {},
                  _get("/api/repos/" \o owner \o "/" \o repo \o "/pulls/" \o ToStr(number), NoDict))

pulls_create ==
    /\ Callable
    /\ \E owner \in Owners, repo \in RepoNames, body \in {None, "text"} :
        /\ LET request == CreatePullRequestRequest("fix", body, "feature", "main")
           IN  Invoke("pulls.create", [owner |-> owner, repo |-> repo], {},
                     _post("/api/repos/" \o owner \o "/" \o repo \o "/pulls", Dict(model_dump(request, TRUE))))

pulls_update ==
    /\ Callable
    /\ \E owner \in Owners, repo \in RepoNames, number \in Numbers, kwargs \in Kwargs :
        /\ Invoke("pulls.update", [owner |-> owner, repo |-> repo, number |-> number], DOMAIN kwargs,
                  pulls_update_request(owner, repo, number, kwargs))

pulls_merge ==
    /\ Callable
    /\ \E owner \in Owners, repo \in RepoNames, number \in Numbers, kw \in SUBSET {"method"}, given \in {"squash", "rebase"} :
        /\ LET method == Arg(kw, "method", given, "merge")
           IN  Invoke("pulls.merge", [owner |-> owner, repo |-> repo, number |-> number, method |-> method], kw,
                     _post("/api/repos/" \o owner \o "/" \o repo \o "/pulls/" \o ToStr(number) \o "/merge", Dict([merge_method |-> method])))

pulls_close ==
    /\ Callable
    /\ \E owner \in Owners, repo \in RepoNames, number \in Numbers :
        /\ Invoke("pulls.close", [owner |-> owner, repo |-> repo, number |-> number], {},
                  pulls_update_request(owner, repo, number, [state |-> "closed"]))

pulls_list_reviews ==
    /\ Callable
    /\ \E owner \in Owners, repo \in RepoNames, number \in Numbers :
        /\ Invoke("pulls.list_reviews", [owner |-> owner, repo |-> repo, number |-> number], {},
                  _get("/api/repos/" \o owner \o "/" \o repo \o "/pulls/" \o ToStr(number) \o "/reviews", NoDict))

pulls_create_review ==
    /\ Callable
    /\ \E owner \in Owners, repo \in RepoNames, number \in Numbers, body \in {None, "lgtm"} :
        /\ LET request == CreateReviewRequest(body, "approve", None)
           IN  Invoke("pulls.create_review", [owner |-> owner, repo |-> repo, number |-> number], {},
                     _post("/api/repos/" \o owner \o "/" \o repo \o "/pulls/" \o ToStr(number) \o "/reviews", Dict(model_dump(request, TRUE))))

releases_list ==
    /\ Callable
    /\ \E owner \in Owners, repo \in RepoNames :
        /\ Invoke("releases.list", [owner |-> owner, repo |-> repo], {},
                  _get("/api/repos/" \o owner \o "/" \o repo \o "/releases", NoDict))

releases_get ==
    /\ Callable
    /\ \E owner \in Owners, repo \in RepoNames, release_id \in ReleaseIds :
        /\ Invoke("releases.get", [owner |-> owner, repo |-> repo, release_id |-> release_id], {},
                  _get("/api/repos/" \o owner \o "/" \o repo \o "/releases/" \o release_id, NoDict))

releases_get_latest ==
    /\ Callable
    /\ \E owner \in Owners, repo \in RepoNames :
        /\ Invoke("releases.get_latest", [owner |-> owner, repo |-> repo], {},
                  _get("/api/repos/" \o owner \o "/" \o repo \o "/releases/latest", NoDict))

releases_create ==
    /\ Callable
    /\ \E owner \in Owners, repo \in RepoNames, name \in {None, "first"} :
        /\ LET request == CreateReleaseRequest("v1", name, None, None)
           IN  Invoke("releases.create", [owner |-> owner, repo |-> repo], {},
                     _post("/api/repos/" \o owner \o "/" \o repo \o "/releases", Dict(model_dump(request, TRUE))))

releases_delete ==
    /\ Callable
    /\ \E owner \in Owners, repo \in RepoNames, release_id \in ReleaseIds :
        /\ Invoke("releases.delete", [owner |-> owner, repo |-> repo, release_id |-> release_id], {},
                  _delete("/api/repos/" \o owner \o "/" \o repo \o "/releases/" \o release_id))

labels_list ==
    /\ Callable
    /\ \E owner \in Owners, repo \in RepoNames :
        /\ Invoke("labels.list", [owner |-> owner, repo |-> repo], {},
                  _get("/api/repos/" \o owner \o "/" \o repo \o "/labels", NoDict))

labels_create ==
    /\ Callable
    /\ \E owner \in Owners, repo \in RepoNames, name \in LabelNames, kw \in SUBSET {"description"} :
        /\ LET color == "ff0000"
               description == Arg(kw, "description", "a label", None)
           IN  Invoke("labels.create", [owner |-> owner, repo |-> repo, name |-> name], kw,
                     _post("/api/repos/" \o owner \o "/" \o repo \o "/labels", Dict([name |-> name, color |-> color, description |-> description])))

labels_delete ==
    /\ Callable
    /\ \E owner \in Owners, repo \in RepoNames, name \in LabelNames :
        /\ Invoke("labels.delete", [owner |-> owner, repo |-> repo, name |-> name], {},
                  _delete("/api/repos/" \o owner \o "/" \o repo \o "/labels/" \o name))

users_me ==
    /\ Callable
    /\ Invoke("users.me", NoArgs, {},
              _get("/api/user", NoDict))

users_get ==
    /\ Callable
    /\ \E username \in Owners :
        /\ Invoke("users.get", [username |-> username], {},
                  _get("/api/users/" \o username, NoDict))

orgs_list ==
    /\ Callable
    /\ Invoke("orgs.list", NoArgs, {},
              _get("/api/user/orgs", NoDict))

orgs_get ==
    /\ Callable
    /\ \E org \in Orgs :
        /\ Invoke("orgs.get", [org |-> org], {},
                  _get("/api/orgs/" \o org, NoDict))

orgs_list_teams ==
    /\ Callable
    /\ \E org \in Orgs :
        /\ Invoke("orgs.list_teams", [org |-> org], {},
                  _get("/api/orgs/" \o org \o "/teams", NoDict))

orgs_get_team ==
    /\ Callable
    /\ \E org \in Orgs, team_slug \in TeamSlugs :
        /\ Invoke("orgs.get_team", [org |-> org, team_slug |-> team_slug], {},
                  _get("/api/orgs/" \o org \o "/teams/" \o team_slug, NoDict))

webhooks_list ==
    /\ Callable
    /\ \E owner \in Owners, repo \in RepoNames :
        /\ Invoke("webhooks.list", [owner |-> owner, repo |-> repo], {},
                  _get("/api/repos/" \o owner \o "/" \o repo \o "/hooks", NoDict))

webhooks_create ==
    /\ Callable
    /\ \E owner \in Owners, repo \in RepoNames :
        /\ LET request == CreateWebhookRequest("https://example.org/hook", "[push]")
           IN  Invoke("webhooks.create", [owner |-> owner, repo |-> repo], {},
                     _post("/api/repos/" \o owner \o "/" \o repo \o "/hooks", Dict(model_dump(request, TRUE))))

webhooks_delete ==
    /\ Callable
    /\ \E owner \in Owners, repo \in RepoNames, hook_id \in HookIds :
        /\ Invoke("webhooks.delete", [owner |-> owner, repo |-> repo, hook_id |-> hook_id], {},
                  _delete("/api/repos/" \o owner \o "/" \o repo \o "/hooks/" \o hook_id))

consensus_status ==
    /\ Callable
    /\ Invoke("consensus.status", NoArgs, {},
              _get("/api/consensus/status", NoDict))

consensus_list_blocks ==
    /\ Callable
    /\ \E kw \in SUBSET {"limit"} :
        /\ LET limit == Arg(kw, "limit", 5, 10)
           IN  Invoke("consensus.list_blocks", NoArgs, kw,
                     _get("/api/consensus/blocks", Dict([limit |-> ToStr(limit)])))

consensus_get_block ==
    /\ Callable
    /\ \E height \in Numbers :
        /\ Invoke("consensus.get_block", [height |-> height], {},
                  _get("/api/consensus/blocks/" \o ToStr(height), NoDict))

consensus_list_validators ==
    /\ Callable
    /\ Invoke("consensus.list_validators", NoArgs, {},
              _get("/api/consensus/validators", NoDict))

FacadeCall ==
    \/ repos_list
    \/ repos_get
    \/ repos_create
    \/ repos_update
    \/ repos_delete
    \/ issues_list
    \/ issues_get
    \/ issues_create
    \/ issues_update
    \/ issues_close
    \/ issues_reopen
    \/ issues_list_comments
    \/ issues_create_comment
    \/ pulls_list
    \/ pulls_get
    \/ pulls_create
    \/ pulls_update
    \/ pulls_merge
    \/ pulls_close
    \/ pulls_list_reviews
    \/ pulls_create_review
    \/ releases_list
    \/ releases_get
    \/ releases_get_latest
    \/ releases_create
    \/ releases_delete
    \/ labels_list
    \/ labels_create
    \/ labels_delete
    \/ users_me
    \/ users_get
    \/ orgs_list
    \/ orgs_get
    \/ orgs_list_teams
    \/ orgs_get_team
    \/ webhooks_list
    \/ webhooks_create
    \/ webhooks_delete
    \/ consensus_status
    \/ consensus_list_blocks
    \/ consensus_get_block
    \/ consensus_list_validators

\* The rest of the facade method: the underlying client answers, _request
\* returns or raises, and the facade builds its value.
Receive ==
    /\ pc = "sent"
    /\ \E response \in Responses :
          LET r == _request(call.request, response)
          IN  /\ resp' = response
              /\ sent' = r.sent
              /\ result' = facade_return(call.op, r.outcome)
    /\ pc' = "done"
    /\ UNCHANGED <<call, conn, scope, block_exc, caller_exc, issue_state>>

\* The caller takes the value, or catches the error, and goes on.
Resume ==
    /\ pc = "done"
    /\ pc' = "idle"
    /\ call' = NoCall
    /\ sent' = <<>>
    /\ resp' = NoResponse
    /\ result' = NoResult
    /\ UNCHANGED <<conn, scope, block_exc, caller_exc, issue_state>>

\* GutsClient.close()
client_close ==
    /\ pc = "idle"
    /\ conn' = close(conn)
    /\ UNCHANGED <<pc, call, sent, resp, result, scope, block_exc, caller_exc, issue_state>>

\* with client: ... the block is entered
__enter__ ==
    /\ pc = "idle"
    /\ scope = "outside"
    /\ scope' = "inside"
    /\ UNCHANGED <<pc, call, sent, resp, result, conn, block_exc, caller_exc, issue_state>>

\* The block is left: at its end (NoError), by an error of the caller's own
\* code, or by the error a facade call raised in it.
leave_block ==
    /\ scope = "inside"
    /\ pc \in {"idle", "done"}
    /\ \E exc \in {NoError, Foreign("RuntimeError")}
                  \cup (IF pc = "done" /\ result.tag = "raise" THEN {result.err} ELSE {}) :
          block_exc' = exc
    /\ scope' = "leaving"
    /\ pc' = "idle"
    /\ call' = NoCall
    /\ sent' = <<>>
    /\ resp' = NoResponse
    /\ result' = NoResult
    /\ UNCHANGED <<conn, caller_exc, issue_state>>

\* The with statement calls __exit__ and re-raises the error of the block
\* unless __exit__ returned a true value.
with_exit ==
    /\ scope = "leaving"
    /\ LET x == __exit__(conn, block_exc)
       IN  /\ conn' = x.conn
           /\ caller_exc' = IF x.ret = "True" THEN NoError ELSE block_exc
    /\ scope' = "exited"
    /\ UNCHANGED <<pc, call, sent, resp, result, block_exc, issue_state>>

Init ==
    /\ pc = "idle"
    /\ call = NoCall
    /\ sent = <<>>
    /\ resp = NoResponse
    /\ result = NoResult
    /\ conn = "open"
    /\ scope = "outside"
    /\ block_exc = NoError
    /\ caller_exc = NoError
    /\ issue_state = [number \in Numbers |-> "open"]

\* GutsClient(...): the caller makes a new client once the old one is closed
__init__ ==
    /\ pc = "idle"
    /\ conn = "closed"
    /\ scope \in {"outside", "exited"}
    /\ conn' = "open"
    /\ scope' = "outside"
    /\ block_exc' = NoError
    /\ caller_exc' = NoError
    /\ UNCHANGED <<pc, call, sent, resp, result, issue_state>>

Next ==
    \/ FacadeCall
    \/ Receive
    \/ Resume
    \/ client_close
    \/ __enter__
    \/ leave_block
    \/ with_exit
    \/ __init__

Spec == Init /\ [][Next]_vars

-----------------------------------------------------------------------------
(* The dispatch on its own: raise_for_status applied to every status code   *)
(* of the bounded range, every message and both kinds of details.           *)

DispatchCall(status_code, message, details) ==
    [op |-> "raise_for_status", status_code |-> status_code, message |-> message,
     details |-> details]

InitDispatch ==
    /\ pc = "idle"
    /\ call \in {DispatchCall(s, m, d) :
                    s \in MinStatus..MaxStatus, m \in Messages,
                    d \in {NoJson, ObjectBody({"message"}, "issue not found", <<>>, 0)}}
    /\ sent = <<>>
    /\ resp = NoResponse
    /\ result = NoResult
    /\ conn = "open"
    /\ scope = "outside"
    /\ block_exc = NoError
    /\ caller_exc = NoError
    /\ issue_state = [number \in Numbers |-> "open"]

Dispatch ==
    /\ pc = "idle"
    /\ call.op = "raise_for_status"
    /\ result' = raise_for_status(call.status_code, call.message, call.details)
    /\ pc' = "done"
    /\ UNCHANGED <<call, sent, resp, conn, scope, block_exc, caller_exc, issue_state>>

NextDispatch == Dispatch

SpecDispatch == InitDispatch /\ [][NextDispatch]_vars

-----------------------------------------------------------------------------
(* Closing and reopening issues against a server that keeps each issue's    *)
(* state.  The client keeps none: the server's answer is whatever the       *)
(* network brings, and a successful answer to a PATCH carrying a state      *)
(* changes the issue on the server's side.                                  *)

\* the state of an issue after the server has accepted a PATCH with this state
Patched(old, state) ==
    IF state = "closed"
    THEN IF old = "open" THEN "closed" ELSE "closed again"
    ELSE "open"

\* The server answers the PATCH of issues.close or issues.reopen; the rest of
\* the facade method runs as in Receive.
ServerAnswers ==
    /\ pc = "sent"
    /\ call.op \in {"issues.close", "issues.reopen"}
    /\ \E response \in Responses :
          LET r == _request(call.request, response)
              number == call.args.number
          IN  /\ resp' = response
              /\ sent' = r.sent
              /\ result' = facade_return(call.op, r.outcome)
              /\ issue_state' =
                     IF response.kind = "response" /\ is_success(response)
                     THEN [issue_state EXCEPT
                              ![number] = Patched(@, call.request.json.d.state)]
                     ELSE issue_state
    /\ pc' = "done"
    /\ UNCHANGED <<call, conn, scope, block_exc, caller_exc>>

NextClose ==
    \/ issues_close
    \/ issues_reopen
    \/ ServerAnswers
    \/ Resume

SpecClose == Init /\ [][NextClose]_vars

-----------------------------------------------------------------------------
(* The string form on its own: str() applied to every error the taxonomy    *)
(* can build, with the base error and the server error over the bounded     *)
(* range of status codes and the unknown status 0.                          *)

TaxonomyErrors ==
    LET details == NoJson
    IN  {GutsError(m, s, details) : m \in Messages, s \in {0} \cup (MinStatus..MaxStatus)}
        \cup {ServerError(m, s, details) : m \in Messages, s \in {0} \cup (MinStatus..MaxStatus)}
        \cup {NotFoundError(m, details) : m \in Messages}
        \cup {UnauthorizedError(m, details) : m \in Messages}
        \cup {ForbiddenError(m, details) : m \in Messages}
        \cup {RateLimitError(m, None, details) : m \in Messages}
        \cup {ValidationError(m, details) : m \in Messages}

StrCall(self) == [op |-> "__str__", self |-> self]

InitStr ==
    /\ pc = "idle"
    /\ call \in {StrCall(e) : e \in TaxonomyErrors}
    /\ sent = <<>>
    /\ resp = NoResponse
    /\ result = NoResult
    /\ conn = "open"
    /\ scope = "outside"
    /\ block_exc = NoError
    /\ caller_exc = NoError
    /\ issue_state = [number \in Numbers |-> "open"]

Str ==
    /\ pc = "idle"
    /\ call.op = "__str__"
    /\ result' = Return(StrValue(__str__(call.self)))
    /\ pc' = "done"
    /\ UNCHANGED <<call, sent, resp, conn, scope, block_exc, caller_exc, issue_state>>

NextStr == Str

SpecStr == InitStr /\ [][NextStr]_vars

-----------------------------------------------------------------------------
(* The claims *)

\* the kinds of the taxonomy, by status code
TaxonomyKind(s) ==
    CASE s = 401 -> "UnauthorizedError"
      [] s = 403 -> "ForbiddenError"
      [] s = 404 -> "NotFoundError"
      [] s = 422 -> "ValidationError"
      [] s = 429 -> "RateLimitError"
      [] s >= 500 -> "ServerError"
      [] s >= 400 /\ s <= 499 /\ s \notin {401, 403, 404, 422, 429} -> "GutsError"
      [] OTHER -> "none"

Dispatched == pc = "done" /\ call.op = "raise_for_status"

\* C1, as stated: for every status code s and message m, raise_for_status
\* raises an error, of the kind the taxonomy gives s, carrying m and s.
C1_DispatchRaisesForEveryStatus ==
    Dispatched =>
        /\ result.tag = "raise"
        /\ call.status_code >= 400 => result.err.kind = TaxonomyKind(call.status_code)
        /\ result.err.message = call.message
        /\ result.err.status_code = call.status_code

\* C1, amended: for every status code s >= 400 and message m, raise_for_status
\* raises an error of the kind the taxonomy gives s, carrying m, s and the
\* details unchanged; for s < 400 it raises nothing and returns None.
C1_Dispatch ==
    Dispatched =>
        IF call.status_code >= 400
        THEN /\ result.tag = "raise"
             /\ result.err.kind = TaxonomyKind(call.status_code)
             /\ result.err.message = call.message
             /\ result.err.status_code = call.status_code
             /\ result.err.details = call.details
        ELSE result = Return(NoValue)

\* a 503 dispatched to a ServerError that keeps 503 and the message
C1_Witness ==
    /\ Dispatched
    /\ call.status_code = 503
    /\ result.tag = "raise"
    /\ result.err.kind = "ServerError"
    /\ result.err.status_code = 503
    /\ result.err.message = "rate limited"

Answered == pc = "done" /\ call.op # "raise_for_status" /\ resp.kind = "response"

\* C2: for every response whose status is not in 200..299, 1xx and 3xx
\* included, the call raises an error and returns no value.
C2_NonSuccessRaises ==
    (Answered /\ ~is_success(resp)) => result.tag = "raise"

ListOps ==
    {"repos.list", "issues.list", "issues.list_comments", "pulls.list",
     "pulls.list_reviews", "releases.list", "labels.list", "orgs.list",
     "orgs.list_teams", "webhooks.list", "consensus.list_blocks",
     "consensus.list_validators"}

\* the record type each list operation returns
TargetType(op) ==
    CASE op = "repos.list" -> "Repository"
      [] op = "issues.list" -> "Issue"
      [] op = "issues.list_comments" -> "Comment"
      [] op = "pulls.list" -> "PullRequest"
      [] op = "pulls.list_reviews" -> "Review"
      [] op = "releases.list" -> "Release"
      [] op = "labels.list" -> "Label"
      [] op = "orgs.list" -> "Organization"
      [] op = "orgs.list_teams" -> "Team"
      [] op = "webhooks.list" -> "Webhook"
      [] op = "consensus.list_blocks" -> "Block"
      [] op = "consensus.list_validators" -> "Validator"

\* the element-wise decoding of an array of well-formed entities
Decoded(T, items) == [i \in 1..Len(items) |-> RecordValue(T, items[i].id)]
WellFormed(items) == \A i \in 1..Len(items) : items[i] \in Entities

\* a successful response that carries a body
SuccessWithBody == Answered /\ is_success(resp) /\ resp.status_code # 204

\* C3: every list operation, answered with a bare JSON array, returns without
\* error the sequence of its elements decoded into the target record type, in
\* order.
C3_BareArrayDecoded ==
    (/\ SuccessWithBody
     /\ call.op \in ListOps
     /\ resp.body.shape = "array"
     /\ WellFormed(resp.body.items))
    => result = Return(ListValue(Decoded(TargetType(call.op), resp.body.items)))

\* C4: every list operation, answered with an object that has an items array,
\* returns the decoding of that array in order, whatever other keys the
\* object has.
C4_ItemsEnvelopeDecoded ==
    (/\ SuccessWithBody
     /\ call.op \in ListOps
     /\ resp.body.shape = "object"
     /\ "items" \in resp.body.keys
     /\ WellFormed(resp.body.items))
    => result = Return(ListValue(Decoded(TargetType(call.op), resp.body.items)))

CreateOrUpdateOps ==
    {"repos.create", "repos.update", "issues.create", "issues.update",
     "pulls.create", "pulls.update", "pulls.create_review", "releases.create",
     "labels.create", "webhooks.create"}

\* C5: no create or update operation sends a JSON body with a key whose value
\* is None (null).
C5_NoNullInBody ==
    (pc \in {"sent", "done"} /\ call.op \in CreateOrUpdateOps)
    => \A i \in 1..Len(sent) :
          \A k \in DOMAIN sent[i].json.d : sent[i].json.d[k] # None

\* C6: a 429 response raises a RateLimitError whose retry_after is the hint the
\* server declared, and None only when it declared none.
C6_RetryAfterForwarded ==
    (Answered /\ resp.status_code = 429)
    => /\ result.tag = "raise"
       /\ result.err.kind = "RateLimitError"
       /\ result.err.retry_after = resp.retry_after

DeleteOps == {"repos.delete", "releases.delete", "labels.delete", "webhooks.delete"}

\* C7: every delete operation returns nothing and raises no error for every
\* response status in 200..299, whatever the body.
C7_DeleteReturnsNothingOnSuccess ==
    (Answered /\ call.op \in DeleteOps /\ is_success(resp))
    => result = Return(NoValue)

FacadeRunning == pc \in {"sent", "done"} /\ call.op # "raise_for_status"

\* C8: every facade call hands exactly one request to the underlying client
\* over its whole execution, also when the answer is a 4xx or 5xx status or a
\* network failure, and such a failure is raised to the caller by that call.
C8_OneRequestPerCall ==
    /\ FacadeRunning => (Len(sent) = 1 /\ sent[1] = call.request)
    /\ (pc = "done" /\ call.op # "raise_for_status"
        /\ (resp.kind = "exception" \/ resp.status_code >= 400))
       => result.tag = "raise"

\* issues.close answered 503: one request sent, ServerError raised
C8_Witness ==
    /\ pc = "done"
    /\ call.op = "issues.close"
    /\ resp.kind = "response"
    /\ resp.status_code = 503
    /\ Len(sent) = 1
    /\ result.tag = "raise"
    /\ result.err.kind = "ServerError"

NoPaging(c) == c.kw \cap {"page", "per_page"} = {}
PagedListOps == {"repos.list", "issues.list", "pulls.list"}

\* C9, as stated: every list operation called without page and per_page sends
\* page=1 and per_page=30 as query parameters of its GET request.
C9_AllListsSendPageDefaults ==
    (FacadeRunning /\ call.op \in ListOps /\ NoPaging(call))
    => /\ call.request.method = "GET"
       /\ call.request.params.some
       /\ {"page", "per_page"} \subseteq DOMAIN call.request.params.d
       /\ call.request.params.d["page"] = "1"
       /\ call.request.params.d["per_page"] = "30"

\* C9, amended: repos.list, issues.list and pulls.list accept page and
\* per_page, and called without them send page=1 and per_page=30 as query
\* parameters of their GET request; the other nine list operations send a GET
\* with neither page nor per_page.
C9_PagedListsSendDefaults ==
    (FacadeRunning /\ call.op \in ListOps)
    => /\ call.request.method = "GET"
       /\ sent[1] = call.request
       /\ IF call.op \in PagedListOps
          THEN /\ call.request.params.some
               /\ {"page", "per_page"} \subseteq DOMAIN call.request.params.d
               /\ "page" \notin call.kw => call.request.params.d["page"] = "1"
               /\ "per_page" \notin call.kw => call.request.params.d["per_page"] = "30"
          ELSE /\ call.kw \cap {"page", "per_page"} = {}
               /\ {"page", "per_page"} \cap DOMAIN call.request.params.d = {}

\* issues.list called without page and per_page, its request in flight
C9_Witness ==
    /\ pc = "sent"
    /\ call.op = "issues.list"
    /\ call.kw = {}
    /\ sent[1].params.d["page"] = "1"
    /\ sent[1].params.d["per_page"] = "30"

\* C10: when the with-block has been left, at its end or by an error, the
\* connection is closed and the error of the block, if any, is the one that
\* reaches the caller.
C10_ScopedRelease ==
    scope = "exited" => (conn = "closed" /\ caller_exc = block_exc)

\* a block left by the NotFoundError of a facade call made in it
C10_Witness ==
    /\ scope = "exited"
    /\ conn = "closed"
    /\ block_exc.kind = "NotFoundError"
    /\ caller_exc = block_exc

\* the decimal digits of a status code, most significant first
Decimal(n) ==
    IF n < 10 THEN <<n>>
    ELSE IF n < 100 THEN <<n \div 10, n % 10>>
    ELSE <<n \div 100, (n \div 10) % 10, n % 10>>

RECURSIVE Concat(_)
Concat(strs) == IF strs = <<>> THEN "" ELSE Head(strs) \o Concat(Tail(strs))

\* "[<status>] <message>"
Bracketed(status, message) ==
    Concat(<<"[">> \o [i \in 1..Len(Decimal(status)) |-> Digit[Decimal(status)[i] + 1]]
           \o <<"] ", message>>)

Stringified == pc = "done" /\ call.op = "__str__"

\* C11: the string form of every error of the taxonomy is "[<status>] <message>"
\* when its status is not 0, and exactly its message when the status is 0.
C11_StringForm ==
    Stringified =>
        /\ result.tag = "return"
        /\ result.val.vt = "str"
        /\ result.val.str = IF call.self.status_code # 0
                            THEN Bracketed(call.self.status_code, call.self.message)
                            ELSE call.self.message

\* a base error without a status, rendered as its message alone
C11_Witness ==
    /\ Stringified
    /\ call.self.kind = "GutsError"
    /\ call.self.status_code = 0
    /\ result.val.str = "issue not found"

\* a failed response whose status the taxonomy maps to an error
FailedAnswer == Answered /\ resp.status_code >= 400

ParsesAsJson(body) == body.shape \in {"scalar", "array", "object"}

HasMessage(body) == body.shape = "object" /\ "message" \in body.keys

\* C12: the error raised for a failed response carries the body's message field
\* and the whole parsed body as details when the body is JSON with a message
\* field; "Request failed" and the whole parsed body when it is JSON without
\* one; and the raw text ("Request failed" when empty) without details when
\* the body is not JSON.  Stated for the statuses from 400 up, where an error
\* is raised at all.
C12_FailureCarriesBody ==
    FailedAnswer =>
        /\ result.tag = "raise"
        /\ result.err.message =
               IF HasMessage(resp.body) THEN resp.body.message
               ELSE IF ParsesAsJson(resp.body) THEN "Request failed"
               ELSE IF resp.body.text # "" THEN resp.body.text
               ELSE "Request failed"
        /\ result.err.details =
               IF ParsesAsJson(resp.body) THEN resp.body ELSE NoJson

ClosePatch(owner, repo, number) ==
    Request("PATCH", "/api/repos/" \o owner \o "/" \o repo \o "/issues/" \o ToStr(number),
            NoDict, Dict([state |-> "closed"]))

Closing == FacadeRunning /\ call.op = "issues.close"

\* C13: issues.close keeps no state of its own.  Whatever the issue's state on
\* the server, each close sends the one PATCH to
\* /api/repos/{owner}/{repo}/issues/{number} with the body {"state": "closed"}
\* and nothing else; and a close that the server answers with success and the
\* issue returns that issue, also when the issue was closed already.
C13_CloseIsStateless ==
    Closing =>
        /\ sent = <<ClosePatch(call.args.owner, call.args.repo, call.args.number)>>
        /\ (/\ pc = "done"
            /\ resp.kind = "response"
            /\ is_success(resp)
            /\ resp.status_code # 204
            /\ resp.body \in Entities)
           => result = Return(RecordValue("Issue", resp.body.id))

\* a close of an issue that was closed already, answered 200 with the issue
C13_Witness ==
    /\ pc = "done"
    /\ call.op = "issues.close"
    /\ issue_state[call.args.number] = "closed again"
    /\ resp.kind = "response"
    /\ resp.status_code = 200
    /\ resp.body = Entity(1)
    /\ sent = <<ClosePatch("alice", "demo", call.args.number)>>
    /\ result = Return(RecordValue("Issue", 1))

MergePost(owner, repo, number, method) ==
    Request("POST",
            "/api/repos/" \o owner \o "/" \o repo \o "/pulls/" \o ToStr(number) \o "/merge",
            NoDict, Dict([merge_method |-> method]))

HasBody(response) == response.body.text # ""

\* C14: pulls.merge sends one POST to
\* /api/repos/{owner}/{repo}/pulls/{number}/merge with the body
\* {"merge_method": method}, the method being "merge" when none is given, and
\* returns nothing both on a 204 and on a successful response that has a body.
C14_MergeReturnsNothing ==
    (FacadeRunning /\ call.op = "pulls.merge") =>
        /\ sent = <<MergePost(call.args.owner, call.args.repo, call.args.number,
                              call.args.method)>>
        /\ "method" \notin call.kw => call.args.method = "merge"
        /\ (/\ pc = "done"
            /\ resp.kind = "response"
            /\ is_success(resp)
            /\ (resp.status_code = 204 \/ HasBody(resp)))
           => result = Return(NoValue)

====
